---- MODULE Spec2Model ----
(***************************************************************************)
(* Model of opt_einsum.py: the cost estimator (_compute_size_by_dict), the *)
(* contraction reducer (_find_contraction), the two path searches          *)
(* (_path_optimal, _path_opportunistic) and the path selection and         *)
(* materialization loop of contract.                                       *)
(*                                                                         *)
(* Index labels are the integers of symbols, in alphabetical order (1 is   *)
(* 'a', 2 is 'b', ...).  A subscript term is a sequence of labels, an      *)
(* index set a set of labels.  Positions are 0-based as in the code: the   *)
(* descriptor at position p of a list s is s[p + 1].                       *)
(***************************************************************************)
EXTENDS Integers, Sequences, FiniteSets

\* ---------------------------------------------------------------- bounds
\* largest number of operands of a call
MaxOperands == 3
\* the length of a dimension that is not of length 1
MaxSize == 2

\* the alphabet of line 240, cut to its first three letters
symbols == {1, 2, 3}

VARIABLES
    pc,                \* which function runs, and where it stands
    positions,         \* _find_contraction: argument
    input_sets,        \* list of index sets (argument / local of contract)
    output_set,        \* index set of the output
    ind_dict,          \* size of each label (dimension_dict in contract)
    memory,            \* memory limit (memory_arg in contract)
    result,            \* value returned by the function called
    trace,             \* _path_opportunistic: what each iteration saw and chose
    input_subscripts,  \* contract: the terms of the call, as they were given
    input_list,        \* contract: the live subscript terms
    output_subscript,  \* contract: the declared output term
    kwargs,            \* contract: the path and memory keyword arguments
    path,              \* contract: the path being materialized
    cnum,              \* contract: number of steps materialized so far
    contraction_list,  \* contract: the instructions built so far
    error              \* contract: the exception raised, "" when none

vars == <<pc, positions, input_sets, output_set, ind_dict, memory, result,
          trace, input_subscripts, input_list, output_subscript, kwargs, path, cnum,
          contraction_list, error>>

\* ---------------------------------------------------------------- helpers
Range(s) == {s[i] : i \in DOMAIN s}

\* the elements of a set of integers, ascending
RECURSIVE SortedSeq(_)
SortedSeq(S) ==
    IF S = {} THEN <<>>
    ELSE LET m == CHOOSE x \in S : \A y \in S : x <= y
         IN <<m>> \o SortedSeq(S \ {m})

\* Python's order of two tuples of two integers
PairLess(s, t) == s[1] < t[1] \/ (s[1] = t[1] /\ s[2] < t[2])

\* Python's order of two lists of such tuples
RECURSIVE ListLess(_, _)
ListLess(ps, qs) ==
    IF ps = <<>> THEN qs # <<>>
    ELSE IF qs = <<>> THEN FALSE
    ELSE IF Head(ps) # Head(qs) THEN PairLess(Head(ps), Head(qs))
    ELSE ListLess(Tail(ps), Tail(qs))

\* ------------------------------------------------- _compute_size_by_dict
\* ret = 1; for i in inds: ret *= ind_dict[i]   (inds a set)
RECURSIVE compute_size_by_dict(_, _)
compute_size_by_dict(inds, dict) ==
    IF inds = {} THEN 1
    ELSE LET i == CHOOSE x \in inds : TRUE
         IN dict[i] * compute_size_by_dict(inds \ {i}, dict)

\* the same loop over a subscript term (a string: repeated letters count)
RECURSIVE compute_size_of_term(_, _)
compute_size_of_term(term, dict) ==
    IF term = <<>> THEN 1
    ELSE dict[Head(term)] * compute_size_of_term(Tail(term), dict)

\* ------------------------------------------------------ _find_contraction
\* The loop of lines 31-36 from list index ind on, then lines 38-41.
\* positions is any iterable of integers; the loop only asks whether ind is
\* in it.
RECURSIVE find_contraction_loop(_, _, _, _, _, _)
find_contraction_loop(ind, pos, sets, idx_contract, idx_remain, remaining) ==
    IF ind >= Len(sets)
    THEN LET new_result == idx_remain \cap idx_contract
         IN [new_result   |-> new_result,
             remaining    |-> Append(remaining, new_result),
             idx_removed  |-> idx_contract \ new_result,
             idx_contract |-> idx_contract]
    ELSE IF \E i \in DOMAIN pos : pos[i] = ind
         THEN find_contraction_loop(ind + 1, pos, sets,
                  idx_contract \cup sets[ind + 1], idx_remain, remaining)
         ELSE find_contraction_loop(ind + 1, pos, sets,
                  idx_contract, idx_remain \cup sets[ind + 1],
                  Append(remaining, sets[ind + 1]))

\* a variant that forgets the output set when it seeds idx_remain
find_contraction_no_output(pos, sets, out) ==
    find_contraction_loop(0, pos, sets, {}, {}, <<>>)

\* lines 28-30 seed the loop: idx_contract = set(), idx_remain =
\* output_set.copy(), remaining = []
find_contraction(pos, sets, out) ==
    find_contraction_loop(0, pos, sets, {}, out, <<>>)

\* ------------------------------------------------------------ the pairs
\* zip(*np.triu_indices(n, 1)): the list of the pairs (i, j) with
\* 0 <= i < j < n, row by row; comb_rows(i, n) is the list from row i on
RECURSIVE comb_rows(_, _)
comb_rows(i, n) ==
    IF i >= n - 1 THEN <<>>
    ELSE [k \in 1..(n - 1 - i) |-> <<i, i + k>>] \o comb_rows(i + 1, n)

comb_iter(n) == comb_rows(0, n)

\* a variant of tuple(range(n)) that names one position more
tuple_range_one_more(n) == [i \in 1..(n + 1) |-> i - 1]

\* tuple(range(n))
tuple_range(n) == [i \in 1..n |-> i - 1]

\* ------------------------------------------------------ _path_opportunistic
\* lines 109-122: the entry [sort, positions, new_input_sets] of one pair,
\* with the idx_result that the sieve looks at
iteration_entry(p, sets, out, dict) ==
    LET contract == find_contraction(p, sets, out)
    IN [sort           |-> <<0 - compute_size_by_dict(contract.idx_removed, dict),
                             compute_size_by_dict(contract.idx_contract, dict)>>,
        positions      |-> p,
        new_input_sets |-> contract.remaining,
        idx_result     |-> contract.new_result]

\* a variant of the sieve that lets every result through
passes_memory_always(idx_result, dict, mem) == TRUE

\* lines 67 and 113: the memory sieve, TRUE when the result is kept
passes_memory(idx_result, dict, mem) ==
    compute_size_by_dict(idx_result, dict) <= mem

\* lines 105-122: the list of the candidates of one iteration
iteration_results(sets, out, dict, mem) ==
    LET comb == comb_iter(Len(sets))
        sieve(e) == passes_memory(e.idx_result, dict, mem)
    IN SelectSeq([k \in 1..Len(comb) |-> iteration_entry(comb[k], sets, out, dict)],
                 sieve)

\* a variant that ranks the candidates by the contraction cost alone
best_of_by_cost(results) ==
    LET before(a, b) == \/ a.sort[2] < b.sort[2]
                        \/ (a.sort[2] = b.sort[2] /\ PairLess(a.positions, b.positions))
    IN results[CHOOSE k \in 1..Len(results) :
                   \A j \in 1..Len(results) : j = k \/ before(results[k], results[j])]

\* lines 130-131: iteration_results.sort(); best = iteration_results[0].
\* Entries are lists [sort, positions, new_input_sets]; positions differ from
\* entry to entry, so the order is decided by sort, then positions.
best_of(results) ==
    LET before(a, b) == \/ PairLess(a.sort, b.sort)
                        \/ (a.sort = b.sort /\ PairLess(a.positions, b.positions))
    IN results[CHOOSE k \in 1..Len(results) :
                   \A j \in 1..Len(results) : j = k \/ before(results[k], results[j])]

\* the loop of lines 104-133 with left iterations still to run; tr records,
\* for every iteration run, the list it saw and the positions it appended
RECURSIVE opportunistic_loop(_, _, _, _, _, _, _)
opportunistic_loop(left, sets, out, dict, mem, pth, tr) ==
    IF left = 0 THEN [path |-> pth, trace |-> tr]
    ELSE LET results == iteration_results(sets, out, dict, mem)
         IN IF Len(results) = 0
            THEN [path  |-> Append(pth, tuple_range(Len(sets))),
                  trace |-> Append(tr, [input_sets |-> sets,
                                        positions  |-> tuple_range(Len(sets)),
                                        fallback   |-> TRUE])]
            ELSE LET best == best_of(results)
                 IN opportunistic_loop(left - 1, best.new_input_sets, out, dict, mem,
                        Append(pth, best.positions),
                        Append(tr, [input_sets |-> sets,
                                    positions  |-> best.positions,
                                    fallback   |-> FALSE]))

\* a variant whose loop runs once for every operand, not once less
path_opportunistic_one_more(sets, out, dict, mem) ==
    opportunistic_loop(Len(sets), sets, out, dict, mem, <<>>, <<>>)

\* line 104: the loop runs len(input_sets) - 1 times.  Returns the path, and
\* with it the record of the iterations
path_opportunistic(sets, out, dict, mem) ==
    opportunistic_loop(Len(sets) - 1, sets, out, dict, mem, <<>>, <<>>)

\* ------------------------------------------------------------ _path_optimal
\* lines 63-78: the entry (new_cost, new_pos, new_input_sets) that the pair
\* con adds to the entry curr, with the new_result that the sieve looks at
optimal_entry(curr, con, out, dict) ==
    LET contract == find_contraction(con, curr.remaining, out)
        new_cost == compute_size_by_dict(contract.idx_contract, dict)
                    * (IF Cardinality(contract.idx_removed) > 0 THEN 2 ELSE 1)
    IN [cost       |-> new_cost + curr.cost,
        positions  |-> Append(curr.positions, con),
        remaining  |-> contract.remaining,
        new_result |-> contract.new_result]

\* lines 61-78: what the pairs of comb add to new for the entry curr
optimal_expand(curr, comb, out, dict, mem) ==
    LET sieve(e) == passes_memory(e.new_result, dict, mem)
    IN SelectSeq([k \in 1..Len(comb) |-> optimal_entry(curr, comb[k], out, dict)],
                 sieve)

\* lines 59-78: the list new of one level, from entry c of current on.  comb
\* is a list (Python 2 zip) and is walked again for every entry of current.
RECURSIVE optimal_level(_, _, _, _, _, _)
optimal_level(c, current, comb, out, dict, mem) ==
    IF c > Len(current) THEN <<>>
    ELSE optimal_expand(current[c], comb, out, dict, mem)
         \o optimal_level(c + 1, current, comb, out, dict, mem)

\* the loop of lines 55-81 from level iteration on, for total operands;
\* returns the list new of the last level
RECURSIVE optimal_loop(_, _, _, _, _, _)
optimal_loop(iteration, total, current, out, dict, mem) ==
    IF iteration >= total - 1 THEN current
    ELSE optimal_loop(iteration + 1, total,
             optimal_level(1, current, comb_iter(total - iteration), out, dict, mem),
             out, dict, mem)

\* a variant of the final choice that takes the costliest entry
cheapest_of_reversed(new) ==
    LET before(a, b) == \/ b.cost < a.cost
                        \/ (a.cost = b.cost /\ ListLess(b.positions, a.positions))
    IN new[CHOOSE k \in 1..Len(new) :
               \A j \in 1..Len(new) : j = k \/ before(new[k], new[j])]

\* lines 87-88: new.sort(); new[0].  Entries are tuples (cost, positions,
\* remaining) and the position lists differ from entry to entry.
cheapest_of(new) ==
    LET before(a, b) == \/ a.cost < b.cost
                        \/ (a.cost = b.cost /\ ListLess(a.positions, b.positions))
    IN new[CHOOSE k \in 1..Len(new) :
               \A j \in 1..Len(new) : j = k \/ before(new[k], new[j])]

\* lines 54-89, for two or more operands (with one operand the loop does not
\* run and line 84 reads a name never bound).  fallback tells which return
\* statement was taken.
path_optimal(sets, out, dict, mem) ==
    LET new == optimal_loop(0, Len(sets),
                   <<[cost |-> 0, positions |-> <<>>, remaining |-> sets]>>,
                   out, dict, mem)
    IN IF Len(new) = 0
       THEN [path |-> <<tuple_range(Len(sets))>>, fallback |-> TRUE]
       ELSE [path |-> cheapest_of(new).positions, fallback |-> FALSE]

\* ------------------------------------------------------------ the inputs
\* the index sets an output can have
IndexSets == SUBSET symbols

\* the index sets an operand of a search or of contract can have: those of a
\* vector and of a matrix
OperandSets == {s \in IndexSets : Cardinality(s) \in {1, 2}}

\* the lists of n operand index sets
SetLists(n) == [1..n -> OperandSets]

\* The size maps of the searches: a label is a dimension of length 1 or of
\* length MaxSize.  The searches never look at a label's name, and the
\* operand sets range over all the index sets of their ranks, so every call
\* is a renaming of one whose size map does not decrease along the alphabet
\* and whose output set, among labels of one size, holds the earlier ones.
SizeMaps == {d \in [symbols -> {1, MaxSize}] :
                \A a \in symbols, b \in symbols : a < b => d[a] <= d[b]}

OutputSets(d) == {o \in IndexSets :
                    \A a \in symbols, b \in symbols :
                        (a < b /\ d[a] = d[b] /\ b \in o) => a \in o}

\* the memory limits: 0, and the size of every index set whose labels all
\* have length MaxSize, so that every outcome of the sieve occurs
RECURSIVE Power(_, _)
Power(m, k) == IF k = 0 THEN 1 ELSE m * Power(m, k - 1)
MemoryLimits == {0} \cup {Power(MaxSize, k) : k \in 0..Cardinality(symbols)}

\* the position tuples handed to _find_contraction: any positions of a list
\* of MaxOperands descriptors and one position past its end, ascending
PositionTuples == {SortedSeq(S) : S \in SUBSET (0..MaxOperands)}

\* values of the variables a function under test does not use
Unused == <<>>

\* ---------------------------------------------- calls of _find_contraction
InitReduce ==
    /\ pc = "idle"
    /\ positions \in PositionTuples
    /\ \E n \in 0..MaxOperands : input_sets \in [1..n -> IndexSets]
    /\ output_set \in IndexSets
    /\ ind_dict = Unused /\ memory = 0 /\ result = Unused /\ trace = Unused
    /\ input_subscripts = Unused
    /\ input_list = Unused /\ output_subscript = Unused /\ kwargs = Unused
    /\ path = Unused /\ cnum = 0 /\ contraction_list = Unused /\ error = ""

CallFindContraction ==
    /\ pc = "idle"
    /\ pc' = "reduced"
    /\ result' = find_contraction(positions, input_sets, output_set)
    /\ UNCHANGED <<positions, input_sets, output_set, ind_dict, memory, trace,
                   input_subscripts, input_list, output_subscript, kwargs, path, cnum,
                   contraction_list, error>>

NextReduce == CallFindContraction

SpecReduce == InitReduce /\ [][NextReduce]_vars

\* ------------------------------------------- calls of the two path searches
\* the call of the docstring of contract (lines 207-223):
\* 'ea,fb,abcd,gc,hd->efgh' with every dimension 10 and the default memory,
\* the size of the largest operand
DocExample ==
    /\ input_sets = <<{5, 1}, {6, 2}, {1, 2, 3, 4}, {7, 3}, {8, 4}>>
    /\ output_set = {5, 6, 7, 8}
    /\ ind_dict = [l \in 1..8 |-> 10]
    /\ memory = 10000

InitSearch ==
    /\ pc = "idle"
    /\ \/ /\ \E n \in 2..MaxOperands : input_sets \in SetLists(n)
          /\ ind_dict \in SizeMaps
          /\ output_set \in OutputSets(ind_dict)
          /\ memory \in MemoryLimits
       \/ DocExample
    /\ positions = Unused /\ result = Unused /\ trace = Unused
    /\ input_subscripts = Unused
    /\ input_list = Unused /\ output_subscript = Unused /\ kwargs = Unused
    /\ path = Unused /\ cnum = 0 /\ contraction_list = Unused /\ error = ""

CallPathOptimal ==
    /\ pc = "idle"
    /\ pc' = "optimal"
    /\ result' = path_optimal(input_sets, output_set, ind_dict, memory)
    /\ UNCHANGED <<positions, input_sets, output_set, ind_dict, memory, trace,
                   input_subscripts, input_list, output_subscript, kwargs, path, cnum,
                   contraction_list, error>>

CallPathOpportunistic ==
    /\ pc = "idle"
    /\ pc' = "opportunistic"
    /\ LET r == path_opportunistic(input_sets, output_set, ind_dict, memory)
       IN /\ result' = [path |-> r.path, fallback |-> r.trace[Len(r.trace)].fallback]
          /\ trace' = r.trace
    /\ UNCHANGED <<positions, input_sets, output_set, ind_dict, memory,
                   input_subscripts, input_list, output_subscript, kwargs, path, cnum,
                   contraction_list, error>>

NextSearch == CallPathOptimal \/ CallPathOpportunistic

SpecSearch == InitSearch /\ [][NextSearch]_vars

\* ---------------------------------------------------------------- contract
\* The model starts where the subscripts are parsed (line 322): input_list
\* and output_subscript hold the terms, dimension_dict the sizes read off the
\* operands' shapes.

\* the terms of the operands: a vector or a matrix, its labels in
\* alphabetical order
Terms == {SortedSeq(o) : o \in OperandSets}

\* the sequences without repetition of at most two of the labels of S
Arrangements(S) ==
    {<<>>} \cup {<<a>> : a \in S} \cup {t \in S \X S : t[1] # t[2]}

\* lines 312-318: the output subscript built when none is given: the labels
\* that occur once in the input subscripts, sorted
implicit_output(terms) ==
    SortedSeq({l \in symbols :
        Cardinality({kc \in (DOMAIN terms) \X (1..Cardinality(symbols)) :
                        /\ kc[2] \in DOMAIN terms[kc[1]]
                        /\ terms[kc[1]][kc[2]] = l}) = 1})

\* the size maps of contract: they do not increase along the alphabet, so
\* that sorting labels by size is not sorting them by name
ContractSizeMaps == {d \in [symbols -> {1, MaxSize}] :
                        \A a \in symbols, b \in symbols : a < b => d[a] >= d[b]}

\* the path keyword: a strategy name (one of them unknown to contract), or a
\* list of steps
StrategyNames == {"opportunistic", "optimal", "exhaustive"}

\* the explicit paths: at most two steps, each a pair of positions of a list
\* of MaxOperands terms or the pair (0, MaxOperands), which is out of range
\* in every call
ExplicitSteps == Range(comb_iter(MaxOperands)) \cup {<<0, MaxOperands>>}
ExplicitPaths == {<<>>} \cup {<<p>> : p \in ExplicitSteps}
                        \cup (ExplicitSteps \X ExplicitSteps)

\* the memory keyword: absent, or 1, or MaxSize
MemoryKeywords == {[given |-> FALSE, value |-> 0]}
                      \cup {[given |-> TRUE, value |-> m] : m \in {1, MaxSize}}

\* a step of a path as the loop of line 387 meets it: a tuple of positions,
\* or the integer that line 373 writes as (0)
TupleStep(t) == [iterable |-> TRUE, inds |-> t]
IntStep(i) == [iterable |-> FALSE, inds |-> <<i>>]

InitContract ==
    /\ pc = "called"
    /\ \E n \in 1..MaxOperands : input_list \in [1..n -> Terms]
    /\ ind_dict \in ContractSizeMaps
    /\ \/ /\ \E name \in StrategyNames, m \in MemoryKeywords :
               kwargs = [is_str |-> TRUE, name |-> name, list |-> <<>>, memory |-> m]
          /\ output_subscript
                 \in Arrangements(UNION {Range(input_list[k]) : k \in DOMAIN input_list})
       \/ /\ \E given \in ExplicitPaths :
               kwargs = [is_str |-> FALSE, name |-> "", list |-> given,
                         memory |-> [given |-> FALSE, value |-> 0]]
          /\ output_subscript = implicit_output(input_list)
    \* line 255: input_list is the split of input_subscripts
    /\ input_subscripts = input_list
    \* lines 323-324
    /\ input_sets = [k \in DOMAIN input_list |-> Range(input_list[k])]
    /\ output_set = Range(output_subscript)
    /\ memory = 0 /\ path = Unused /\ cnum = 0 /\ contraction_list = Unused
    /\ error = "" /\ positions = Unused /\ result = Unused /\ trace = Unused

\* max of a set of integers
Max(S) == CHOOSE x \in S : \A y \in S : y <= x

\* lines 347-351
out_size ==
    Max({compute_size_of_term(input_list[k], ind_dict) : k \in DOMAIN input_list}
        \cup {compute_size_of_term(output_subscript, ind_dict)})

\* line 356
memory_arg == IF kwargs.memory.given THEN kwargs.memory.value ELSE out_size

\* min of two integers
Min2(a, b) == IF a <= b THEN a ELSE b

\* lines 370-383: which branch of the if chain runs
branch ==
    IF ~kwargs.is_str THEN "list"
    ELSE IF Len(input_list) = 1 THEN "one"
    ELSE IF Len(input_list) = 2 THEN "two"
    ELSE IF kwargs.name = "opportunistic" THEN "opportunistic"
    ELSE IF kwargs.name = "optimal" THEN "optimal"
    ELSE "KeyError"

\* lines 347-385: the memory limit and the path are set, or KeyError is raised
ChoosePath ==
    /\ pc = "called"
    /\ IF branch = "KeyError"
       THEN /\ pc' = "raised"
            /\ error' = "KeyError"
            /\ UNCHANGED <<memory, path, contraction_list>>
       ELSE /\ pc' = "materializing"
            /\ error' = ""
            /\ contraction_list' = <<>>
            /\ memory' = IF branch = "opportunistic"
                         THEN Min2(memory_arg, out_size) ELSE memory_arg
            /\ path' =
                 CASE branch = "list" ->
                        [k \in DOMAIN kwargs.list |-> TupleStep(kwargs.list[k])]
                   [] branch = "one" -> <<IntStep(0)>>
                   [] branch = "two" -> <<TupleStep(<<0, 1>>)>>
                   [] branch = "opportunistic" ->
                        LET found == path_opportunistic(input_sets, output_set, ind_dict,
                                         Min2(memory_arg, out_size)).path
                        IN [k \in DOMAIN found |-> TupleStep(found[k])]
                   [] branch = "optimal" ->
                        LET found == path_optimal(input_sets, output_set, ind_dict,
                                         memory_arg).path
                        IN [k \in DOMAIN found |-> TupleStep(found[k])]
    /\ UNCHANGED <<positions, input_sets, output_set, ind_dict, result, trace,
                   input_subscripts, input_list, output_subscript, kwargs, cnum>>

\* sorted(list(contract_inds), reverse=True): insertion of x into a list that
\* is already in descending order, and the sort built on it
RECURSIVE insert_descending(_, _)
insert_descending(x, sorted) ==
    IF sorted = <<>> THEN <<x>>
    ELSE IF x >= Head(sorted) THEN <<x>> \o sorted
    ELSE <<Head(sorted)>> \o insert_descending(x, Tail(sorted))

RECURSIVE sorted_reverse(_)
sorted_reverse(inds) ==
    IF inds = <<>> THEN <<>>
    ELSE insert_descending(Head(inds), sorted_reverse(Tail(inds)))

\* list.pop(x) for 0 <= x: the list without its element at position x
pop(list, x) == SubSeq(list, 1, x) \o SubSeq(list, x + 2, Len(list))

\* lines 394-396: the pops of the positions inds, in turn; ok is FALSE when a
\* pop is out of range (IndexError)
RECURSIVE pop_all(_, _, _)
pop_all(inds, list, tmp_inputs) ==
    IF inds = <<>> THEN [ok |-> TRUE, list |-> list, tmp_inputs |-> tmp_inputs]
    ELSE IF Head(inds) >= Len(list)
         THEN [ok |-> FALSE, list |-> list, tmp_inputs |-> tmp_inputs]
         ELSE pop_all(Tail(inds), pop(list, Head(inds)),
                      Append(tmp_inputs, list[Head(inds) + 1]))

\* lines 402-403: the labels of out_inds sorted by (size, label)
RECURSIVE sorted_by_size(_, _)
sorted_by_size(out_inds, dict) ==
    IF out_inds = {} THEN <<>>
    ELSE LET m == CHOOSE x \in out_inds :
                      \A y \in out_inds : PairLess(<<dict[x], x>>, <<dict[y], y>>) \/ x = y
         IN <<m>> \o sorted_by_size(out_inds \ {m}, dict)

\* a variant of lines 399-403 that sorts the labels of the last step too
result_term_always_sorted(step_number, steps, out_inds, dict, out_term) ==
    sorted_by_size(out_inds, dict)

\* lines 398-403: the term of the result of step cnum (0-based) of len(path)
result_term(step_number, steps, out_inds, dict, out_term) ==
    IF step_number - steps = 0 - 1 THEN out_term
    ELSE sorted_by_size(out_inds, dict)

\* lines 387-408: one turn of the materialization loop
MaterializeStep ==
    /\ pc = "materializing"
    /\ cnum < Len(path)
    /\ LET step == path[cnum + 1]
       IN IF ~step.iterable
          THEN \* line 389: list() of an integer
               /\ pc' = "raised"
               /\ error' = "TypeError"
               /\ UNCHANGED <<input_sets, input_list, contraction_list, cnum>>
          ELSE LET contract_inds == sorted_reverse(step.inds)
                   contract == find_contraction(contract_inds, input_sets, output_set)
                   popped == pop_all(contract_inds, input_list, <<>>)
                   idx_result == result_term(cnum, Len(path), contract.new_result,
                                             ind_dict, output_subscript)
               IN /\ input_sets' = contract.remaining
                  /\ IF ~popped.ok
                     THEN \* line 396: pop index out of range
                          /\ pc' = "raised"
                          /\ error' = "IndexError"
                          /\ input_list' = popped.list
                          /\ UNCHANGED <<contraction_list, cnum>>
                     ELSE /\ pc' = "materializing"
                          /\ error' = ""
                          /\ input_list' = Append(popped.list, idx_result)
                          /\ contraction_list' =
                               Append(contraction_list,
                                   [contract_inds |-> contract_inds,
                                    gemm          |-> FALSE,
                                    inputs        |-> popped.tmp_inputs,
                                    idx_result    |-> idx_result,
                                    remaining     |-> Append(popped.list, idx_result)])
                          /\ cnum' = cnum + 1
    /\ UNCHANGED <<positions, output_set, ind_dict, memory, result, trace,
                   input_subscripts, output_subscript, kwargs, path>>

\* line 435: np.einsum takes the instruction when every label of its result
\* occurs in one of its input terms, and raises ValueError otherwise
einsum_accepts(instruction) ==
    Range(instruction.idx_result)
        \subseteq UNION {Range(instruction.inputs[k]) : k \in DOMAIN instruction.inputs}

\* lines 410-441: the loop is over.  With return_path the path and its
\* report are returned.  Without it the instructions are run: each pops and
\* appends operands as its step popped and appended terms, so the operands
\* left are those of the terms left, and the first of them is returned.
Return ==
    /\ pc = "materializing"
    /\ cnum = Len(path)
    /\ \E return_path_arg \in BOOLEAN :
         IF return_path_arg
         THEN /\ pc' = "returned"
              /\ result' = [path |-> path, instructions |-> Len(contraction_list)]
              /\ error' = ""
         ELSE IF \A k \in DOMAIN contraction_list : einsum_accepts(contraction_list[k])
         THEN /\ pc' = "returned"
              /\ result' = [labels |-> input_list[1], operands_left |-> Len(input_list)]
              /\ error' = ""
         ELSE /\ pc' = "raised"
              /\ result' = result
              /\ error' = "ValueError"
    /\ UNCHANGED <<positions, input_sets, output_set, ind_dict, memory, trace,
                   input_subscripts, input_list, output_subscript, kwargs, path, cnum,
                   contraction_list>>

Next == ChoosePath \/ MaterializeStep \/ Return

Spec == InitContract /\ [][Next]_vars

\* ------------------------------------------------------- replaying a path
\* the live list after the steps of pth have been applied to sets in turn
RECURSIVE LiveAfter(_, _, _)
LiveAfter(pth, sets, out) ==
    IF pth = <<>> THEN sets
    ELSE LiveAfter(Tail(pth), find_contraction(Head(pth), sets, out).remaining, out)

\* the live list that step k of pth is applied to
LiveBefore(k, pth, sets, out) == LiveAfter(SubSeq(pth, 1, k - 1), sets, out)

\* what step k of pth contracts, keeps and removes
StepOf(k, pth, sets, out) ==
    find_contraction(pth[k], LiveBefore(k, pth, sets, out), out)

\* the cost of step k: the size of its contracted labels, doubled when the
\* step removes a label
StepCost(k, pth, sets, out, dict) ==
    LET c == StepOf(k, pth, sets, out)
    IN IF c.idx_removed = {}
       THEN compute_size_by_dict(c.idx_contract, dict)
       ELSE 2 * compute_size_by_dict(c.idx_contract, dict)

RECURSIVE CostUpTo(_, _, _, _, _)
CostUpTo(k, pth, sets, out, dict) ==
    IF k = 0 THEN 0
    ELSE CostUpTo(k - 1, pth, sets, out, dict) + StepCost(k, pth, sets, out, dict)

\* the cumulative cost of a path
PathCost(pth, sets, out, dict) == CostUpTo(Len(pth), pth, sets, out, dict)

\* step k leaves a result within the memory limit
StepFeasible(k, pth, sets, out, dict, mem) ==
    compute_size_by_dict(StepOf(k, pth, sets, out).new_result, dict) <= mem

\* the positions of step k are distinct and lie in the live list
StepValid(k, pth, sets, out) ==
    /\ \A i \in DOMAIN pth[k], j \in DOMAIN pth[k] : i # j => pth[k][i] # pth[k][j]
    /\ \A i \in DOMAIN pth[k] :
           pth[k][i] \in 0..(Len(LiveBefore(k, pth, sets, out)) - 1)

\* the set of the pairs of positions of a list of n descriptors
Pairs(n) == {p \in (0..(n - 1)) \X (0..(n - 1)) : p[1] < p[2]}

\* the cost of the one step that contracts the positions p of the list sets
OneStepCost(p, sets, out, dict) ==
    LET c == find_contraction(p, sets, out)
    IN IF c.idx_removed = {}
       THEN compute_size_by_dict(c.idx_contract, dict)
       ELSE 2 * compute_size_by_dict(c.idx_contract, dict)

\* the pairs of a live list whose result is within the memory limit
FeasiblePairs(sets, out, dict, mem) ==
    {p \in Pairs(Len(sets)) :
        compute_size_by_dict(find_contraction(p, sets, out).new_result, dict) <= mem}

\* the cumulative costs of all the complete sequences of pairwise steps from
\* the list sets on whose every result is within the memory limit: a first
\* feasible pair, then any such sequence from the list that pair leaves
RECURSIVE FeasibleCosts(_, _, _, _)
FeasibleCosts(sets, out, dict, mem) ==
    IF Len(sets) <= 1 THEN {0}
    ELSE UNION {{OneStepCost(p, sets, out, dict) + c :
                    c \in FeasibleCosts(find_contraction(p, sets, out).remaining,
                                        out, dict, mem)} :
                p \in FeasiblePairs(sets, out, dict, mem)}

\* no pair of the list sets leaves a result within the memory limit
NoFeasiblePair(sets, out, dict, mem) ==
    \A p \in Pairs(Len(sets)) :
        compute_size_by_dict(find_contraction(p, sets, out).new_result, dict) > mem

Searched == pc \in {"optimal", "opportunistic"}

\* ------------------------------------------------------------------- C1
\* C1: the path _path_optimal returns costs no more than any complete
\* sequence of pairwise steps whose every result is within the memory limit.
C1_OptimalIsCheapest ==
    pc = "optimal" =>
        \A c \in FeasibleCosts(input_sets, output_set, ind_dict, memory) :
            PathCost(result.path, input_sets, output_set, ind_dict) <= c

\* a call with three operands where feasible complete sequences differ in
\* cost and the memory limit cuts a first pair
C1_Witness ==
    /\ pc = "optimal"
    /\ Len(input_sets) = 3
    /\ Cardinality(FeasibleCosts(input_sets, output_set, ind_dict, memory)) >= 2
    /\ FeasiblePairs(input_sets, output_set, ind_dict, memory)
           # Pairs(Len(input_sets))

\* ------------------------------------------------------------------- C3
\* C3: every step of a returned path other than a fallback step leaves a
\* result whose size is within the memory limit.  The only fallback step is
\* the last step of a path whose search ended in the fallback.
C3_StepsWithinMemory ==
    Searched =>
        \A k \in 1..Len(result.path) :
            (k < Len(result.path) \/ ~result.fallback) =>
                StepFeasible(k, result.path, input_sets, output_set, ind_dict, memory)

\* a path of two pair steps returned under a memory limit that cuts another pair
C3_Witness ==
    /\ Searched
    /\ ~result.fallback
    /\ Len(result.path) = 2
    /\ \E p \in Pairs(Len(input_sets)) :
           compute_size_by_dict(find_contraction(p, input_sets, output_set).new_result,
                                ind_dict) > memory

\* ------------------------------------------------------------------- C7
\* the group of all the positions 0 .. n - 1
AllPositions(n) == [i \in 1..n |-> i - 1]

\* C7: with three or more operands and a memory limit below the result of
\* every pair of the operands, both searches return the single step that
\* names every position.
C7_FallbackWhenNoPairFits ==
    (/\ Searched
     /\ Len(input_sets) >= 3
     /\ NoFeasiblePair(input_sets, output_set, ind_dict, memory)) =>
        result.path = <<AllPositions(Len(input_sets))>>

\* such a call with a memory limit that is not zero
C7_Witness ==
    /\ pc = "opportunistic"
    /\ Len(input_sets) >= 3
    /\ memory > 0
    /\ NoFeasiblePair(input_sets, output_set, ind_dict, memory)
    /\ result.path = <<AllPositions(Len(input_sets))>>

\* ------------------------------------------------------------------- C8
\* C8 as stated: every returned path has exactly N - 1 steps, each naming
\* distinct positions of the live list.
C8_ExactlyNMinusOneSteps ==
    Searched =>
        /\ Len(result.path) = Len(input_sets) - 1
        /\ \A k \in 1..Len(result.path) :
               StepValid(k, result.path, input_sets, output_set)

\* C8 amended: a returned path has exactly N - 1 steps when it does not end in
\* a fallback step, and between 1 and N - 1 steps when it does (a single step
\* from _path_optimal); each step names distinct positions of the live list.
C8_AtMostNMinusOneSteps ==
    Searched =>
        /\ ~result.fallback => Len(result.path) = Len(input_sets) - 1
        /\ result.fallback => Len(result.path) \in 1..(Len(input_sets) - 1)
        /\ (result.fallback /\ pc = "optimal") => Len(result.path) = 1
        /\ \A k \in 1..Len(result.path) :
               StepValid(k, result.path, input_sets, output_set)

\* a fallback path of _path_opportunistic with a pair step before the fallback
C8_Witness ==
    /\ pc = "opportunistic"
    /\ result.fallback
    /\ Len(result.path) = 2
    /\ Len(input_sets) = 3

\* ------------------------------------------------------------------ C10
RemovedSize(p, sets, out, dict) ==
    compute_size_by_dict(find_contraction(p, sets, out).idx_removed, dict)

ContractedSize(p, sets, out, dict) ==
    compute_size_by_dict(find_contraction(p, sets, out).idx_contract, dict)

\* C10: at every iteration of _path_opportunistic that has a feasible pair,
\* the pair committed is feasible, removes the largest size among the
\* feasible pairs and, among those, contracts the smallest size; the path
\* gets that pair, and the next iteration runs on that pair's updated list.
\* On the call of the docstring the path is the one the docstring prints.
C10_GreedyChoice ==
    pc = "opportunistic" =>
        /\ Len(result.path) = Len(trace)
        /\ trace[1].input_sets = input_sets
        /\ \A k \in 1..Len(trace) :
               LET live == trace[k].input_sets
                   p == trace[k].positions
                   F == FeasiblePairs(live, output_set, ind_dict, memory)
               IN /\ result.path[k] = p
                  /\ F # {} =>
                       /\ p \in F
                       /\ \A q \in F :
                            /\ RemovedSize(p, live, output_set, ind_dict)
                                 >= RemovedSize(q, live, output_set, ind_dict)
                            /\ RemovedSize(p, live, output_set, ind_dict)
                                 = RemovedSize(q, live, output_set, ind_dict)
                               => ContractedSize(p, live, output_set, ind_dict)
                                    <= ContractedSize(q, live, output_set, ind_dict)
                       /\ k < Len(trace) =>
                            trace[k + 1].input_sets
                                = find_contraction(p, live, output_set).remaining
        /\ DocExample =>
               result.path = <<<<0, 2>>, <<0, 3>>, <<0, 2>>, <<0, 1>>>>

\* iteration k commits a pair although a feasible pair contracts less
PicksCostlierPair(k) ==
    LET live == trace[k].input_sets
        p == trace[k].positions
        F == FeasiblePairs(live, output_set, ind_dict, memory)
    IN /\ ~trace[k].fallback
       /\ \E q \in F : ContractedSize(q, live, output_set, ind_dict)
                         < ContractedSize(p, live, output_set, ind_dict)

\* a call whose first iteration does so, and whose second iteration runs on
\* the list the first one left
C10_Witness ==
    /\ pc = "opportunistic"
    /\ Len(trace) >= 2
    /\ PicksCostlierPair(1)


\* ------------------------------------------------------------------- C9
\* C9: _find_contraction removes exactly the contracted labels that are
\* neither in the output set nor in a descriptor that is not selected, and
\* keeps the other contracted labels; kept and removed are disjoint and
\* together are the contracted labels; the updated list is the descriptors
\* not selected, in their order, followed by the kept labels.
Selected == {k \in DOMAIN input_sets : (k - 1) \in Range(positions)}
NotSelected == SortedSeq((DOMAIN input_sets) \ Selected)
Contracted == UNION {input_sets[k] : k \in Selected}
NeededElsewhere ==
    output_set \cup UNION {input_sets[k] : k \in (DOMAIN input_sets) \ Selected}

C9_ReducerPartition ==
    pc = "reduced" =>
        /\ result.idx_contract = Contracted
        /\ result.idx_removed = {l \in Contracted : l \notin NeededElsewhere}
        /\ result.new_result = {l \in Contracted : l \in NeededElsewhere}
        /\ result.new_result \cap result.idx_removed = {}
        /\ result.new_result \cup result.idx_removed = result.idx_contract
        /\ Len(result.remaining) = Len(NotSelected) + 1
        /\ \A k \in DOMAIN NotSelected :
               result.remaining[k] = input_sets[NotSelected[k]]
        /\ result.remaining[Len(result.remaining)] = result.new_result

\* a call that removes a label, keeps one because the output needs it and one
\* because a descriptor left needs it, and leaves two different descriptors
C9_Witness ==
    /\ pc = "reduced"
    /\ result.idx_removed # {}
    /\ result.new_result \cap output_set # {}
    /\ result.new_result \ output_set # {}
    /\ Len(result.remaining) = 3
    /\ result.remaining[1] # result.remaining[2]

\* ------------------------------------------------------------------- C2
\* the call names a strategy that contract knows
KnownStrategy == kwargs.is_str /\ kwargs.name \in {"opportunistic", "optimal"}

\* the materialization loop is over
LoopOver == \/ pc = "materializing" /\ cnum = Len(path)
            \/ pc = "returned"

\* C2: in a call with two or more operands and a known strategy, nothing is
\* raised, and once the materialization loop is over exactly one descriptor
\* is live: its labels are the output set, written as the output subscript.
C2_MaterializesToOutput ==
    (pc # "called" /\ KnownStrategy /\ Len(input_subscripts) >= 2) =>
        /\ error = ""
        /\ LoopOver =>
             /\ Len(input_sets) = 1
             /\ input_sets[1] = output_set
             /\ Len(input_list) = 1
             /\ input_list[1] = output_subscript

\* a call with three operands whose path is the single fallback step and
\* whose output subscript is not in alphabetical order
C2_Witness ==
    /\ pc = "returned"
    /\ KnownStrategy
    /\ Len(input_subscripts) = 3
    /\ Len(path) = 1
    /\ Len(output_subscript) = 2
    /\ output_subscript[1] > output_subscript[2]
    /\ input_list = <<output_subscript>>

\* ------------------------------------------------------------------- C4
\* the explicit path of the call is malformed: its number of steps is not
\* N - 1, or a step names a position outside the live list, or the labels
\* its last step keeps are not the output set
Malformed ==
    LET given == kwargs.list
        sets == [k \in DOMAIN input_subscripts |-> Range(input_subscripts[k])]
    IN \/ Len(given) # Len(sets) - 1
       \/ \E k \in DOMAIN given : ~StepValid(k, given, sets, output_set)
       \/ /\ Len(given) >= 1
          /\ StepOf(Len(given), given, sets, output_set).new_result # output_set

\* C4: a call with a malformed explicit path raises, never returns, and no
\* instruction is ever built for it.
C4_MalformedPathRejected ==
    (~kwargs.is_str /\ pc # "called" /\ Malformed) =>
        /\ contraction_list = <<>>
        /\ pc # "returned"

\* ------------------------------------------------------------------- C5
\* C5: a call that names a strategy contract does not know raises before a
\* path is chosen, whatever the number of operands.
C5_UnknownStrategyRaises ==
    (pc # "called" /\ kwargs.is_str /\ ~KnownStrategy) =>
        /\ pc = "raised"
        /\ error = "KeyError"
        /\ path = Unused

\* ------------------------------------------------------------------- C6
\* C6: in a call with the one operand 'ab' and the output 'ab' the path chosen
\* has no step, nothing is raised and no instruction is built.
C6_OneOperandIdentity ==
    (/\ pc # "called"
     /\ kwargs.is_str
     /\ input_subscripts = <<<<1, 2>>>>
     /\ output_subscript = <<1, 2>>) =>
        /\ Len(path) = 0
        /\ error = ""
        /\ contraction_list = <<>>

====
